---- MODULE Spec2Model ----
(***************************************************************************)
(* Model of the RAG engine of ai-companion-orchestrator                    *)
(* (core/rag/engine.py, core/rag/models.py): the document registry, the    *)
(* vector index, ingestion, search, deletion, reset and metrics.           *)
(*                                                                         *)
(* Scaling.  Texts are sequences of one-character strings.  Distances and  *)
(* scores are integers in tenths (score 7 is 0.7).  A document id          *)
(* "doc_<12 hex digits>" is the ordinal of the uuid that produced it, and  *)
(* the chunk id "<doc_id>_chunk_<i>" is the pair <<doc_id, i>>.            *)
(*                                                                         *)
(* Library calls (ChromaDB add / delete / query / count, file I/O, the     *)
(* embedding backend) are atomic: a call either has its documented effect  *)
(* and returns, or raises and has no effect.  A raise can happen at any    *)
(* call.                                                                   *)
(***************************************************************************)
EXTENDS Integers, Sequences, FiniteSets, TLC

\* How many document ids (uuid4 draws) one behaviour generates.
MaxDocs == 2

\* Python's None, where a string is expected and where a number is.
NoVal == "None"
NoInt == 0 - 1

Min(a, b) == IF a < b THEN a ELSE b
Max(a, b) == IF a > b THEN a ELSE b
Abs(a) == IF a < 0 THEN -a ELSE a
Range(s) == {s[i] : i \in 1..Len(s)}

\* The empty dict.
EmptyMap == [k \in {} |-> NoVal]

\* {**base, **extra}: the keys of extra win.
DictMerge(base, extra) ==
  [k \in (DOMAIN base) \cup (DOMAIN extra) |->
     IF k \in DOMAIN extra THEN extra[k] ELSE base[k]]

\* RAGConfig as the engine is constructed with it.  chunk_size and
\* chunk_overlap are scaled down from 500 / 50 to the size of the texts
\* below; top_k and score_threshold are the defaults (5 and 0.7).
Config ==
  [chunk_size |-> 4, chunk_overlap |-> 1,
   embedding_provider |-> "sentence-transformers",
   top_k |-> 5, score_threshold |-> 7]

(***************************************************************************)
(* Text primitives of Python used by the chunker.                          *)
(***************************************************************************)
IsSpace(c) == c \in {" ", "\n", "\t"}

RECURSIVE LStrip(_)
LStrip(s) == IF s # <<>> /\ IsSpace(Head(s)) THEN LStrip(Tail(s)) ELSE s

RECURSIVE RStrip(_)
RStrip(s) ==
  IF s # <<>> /\ IsSpace(s[Len(s)]) THEN RStrip(SubSeq(s, 1, Len(s) - 1)) ELSE s

\* str.strip()
Strip(s) == RStrip(LStrip(s))

\* str.rfind(ch): the last 0-based position of ch, or -1.
RFind(s, ch) ==
  LET I == {i \in 1..Len(s) : s[i] = ch}
  IN  IF I = {} THEN -1 ELSE (CHOOSE i \in I : \A j \in I : j <= i) - 1

\* A slice bound as Python normalises it.
SliceBound(i, n) == IF i < 0 THEN Max(0, n + i) ELSE Min(i, n)

\* text[a:b]
Slice(text, a, b) ==
  SubSeq(text, SliceBound(a, Len(text)) + 1, SliceBound(b, Len(text)))

(***************************************************************************)
(* chunk_text: one iteration of the loop, and the loop.                    *)
(***************************************************************************)
\* The window of one pass of the while body from `start`: `chunk` before
\* strip() (raw) and `end`, both after the cut at a sentence boundary.
ChunkWindow(text, start, chunk_size) ==
  LET end0 == start + chunk_size
      chunk0 == Slice(text, start, end0)
      break_point == Max(RFind(chunk0, "."), RFind(chunk0, "\n"))
      shorten == end0 < Len(text) /\ 2 * break_point > chunk_size
      chunk == IF shorten THEN Slice(chunk0, 0, break_point + 1) ELSE chunk0
  IN  [raw |-> chunk, end |-> IF shorten THEN start + Len(chunk) ELSE end0]

\* Mutant: the next window starts a fixed stride after this one's start.
ChunkStep_FixedStride(text, start, chunk_size, overlap) ==
  LET w == ChunkWindow(text, start, chunk_size)
  IN  [chunk |-> Strip(w.raw), next |-> start + chunk_size - overlap,
       raw |-> w.raw, end |-> w.end]

\* Mutant: the next window starts one character late.
ChunkStep_StartsLate(text, start, chunk_size, overlap) ==
  LET w == ChunkWindow(text, start, chunk_size)
  IN  [chunk |-> Strip(w.raw), next |-> w.end - overlap + 1,
       raw |-> w.raw, end |-> w.end]

\* One pass of the while body from window start `start`: the stripped chunk
\* appended, and the next start.
ChunkStep(text, start, chunk_size, overlap) ==
  LET w == ChunkWindow(text, start, chunk_size)
  IN  [chunk |-> Strip(w.raw), next |-> w.end - overlap,
       raw |-> w.raw, end |-> w.end]

RECURSIVE ChunkLoop(_, _, _, _)
ChunkLoop(text, start, chunk_size, overlap) ==
  IF start < Len(text)
  THEN LET st == ChunkStep(text, start, chunk_size, overlap)
       IN  <<st.chunk>> \o ChunkLoop(text, st.next, chunk_size, overlap)
  ELSE <<>>

\* Mutant: the chunks are returned as appended.
DropEmpty_KeepsAll(chunks) == chunks

\* [c for c in chunks if c]
RECURSIVE DropEmpty(_)
DropEmpty(chunks) ==
  IF chunks = <<>> THEN <<>>
  ELSE IF Head(chunks) = <<>> THEN DropEmpty(Tail(chunks))
       ELSE <<Head(chunks)>> \o DropEmpty(Tail(chunks))

chunk_text(text) ==
  DropEmpty(ChunkLoop(text, 0, Config.chunk_size, Config.chunk_overlap))

(***************************************************************************)
(* The inputs.                                                             *)
(***************************************************************************)
\* Files on disk: the suffix and the text extract_text reads from them.
FileOne   == [name |-> "one.txt",   ext |-> ".txt",  text |-> <<"a", "b">>]
FileTwo   == [name |-> "two.md",    ext |-> ".md",   text |-> <<"a", "b", ".", "c", "d", "e">>]
FileEmpty == [name |-> "empty.txt", ext |-> ".txt",  text |-> <<>>]
FileDocx  == [name |-> "bad.docx",  ext |-> ".docx", text |-> <<"a">>]

SupportedExt == {".txt", ".md"}

\* ingest_document(file_path, filename, category, context, metadata) calls.
\* The last family passes a metadata map that carries the key document_id,
\* naming a document the caller knows of (one in the registry).  A metadata
\* argument of None is the empty map (the code reads it as `metadata or {}`).
IngestInputs(known) ==
  { [file |-> FileOne,   category |-> "A", context |-> NoVal, metadata |-> EmptyMap],
    [file |-> FileTwo,   category |-> "B", context |-> "p1",
     metadata |-> [source |-> "bulk_ingest"]],
    [file |-> FileTwo,   category |-> "A", context |-> NoVal,
     metadata |-> [category |-> "B"]],
    [file |-> FileEmpty, category |-> "A", context |-> NoVal, metadata |-> EmptyMap],
    [file |-> FileDocx,  category |-> "A", context |-> NoVal, metadata |-> EmptyMap] }
  \cup
  { [file |-> FileOne, category |-> "A", context |-> "p1",
     metadata |-> [document_id |-> d]] : d \in known }

\* search(query, top_k, category, context, score_threshold) calls: every
\* combination of an optional top_k, category, context and threshold for one
\* query, and a few calls with the falsy values 0 and "", a larger top_k, a
\* high threshold and a second query.
QueryAB   == <<"a", "b">>
QueryLong == <<"a", "b", ".", "c">>
SearchInputs ==
  [query : {QueryAB}, top_k : {NoInt, 1}, category : {NoVal, "B"},
   context : {NoVal, "p1"}, score_threshold : {NoInt, 5}]
  \cup
  { [query |-> QueryAB, top_k |-> 0, category |-> "", context |-> "",
     score_threshold |-> 0],
    [query |-> QueryAB, top_k |-> 2, category |-> "A", context |-> NoVal,
     score_threshold |-> 9],
    [query |-> QueryLong, top_k |-> NoInt, category |-> NoVal, context |-> NoVal,
     score_threshold |-> NoInt] }

\* Python truthiness of an optional argument: None, 0 and "" are falsy.
TruthyNum(v) == v # NoInt /\ v # 0
TruthyStr(v) == v # NoVal /\ v # ""

\* a or b, on numbers and on strings
OrNum(a, b) == IF TruthyNum(a) THEN a ELSE b
OrStr(a, b) == IF TruthyStr(a) THEN a ELSE b

\* The engines a host calls into.  Spec drives one; the host serialises.
Procs == {"p1", "p2"}

(***************************************************************************)
(* The state.                                                              *)
(***************************************************************************)
VARIABLES
  collection,   \* self.collection: "ok" (a live Chroma collection), "none"
                \* (fallback mode), "stale" (handle to a deleted collection)
  index,        \* the chunk records of the Chroma collection
  fallback,     \* self._fallback_store
  documents,    \* self.documents: doc id -> Document
  disk,         \* documents.json: [valid, docs]
  nextId,       \* uuid4 draws so far
  call,         \* per caller: the call in progress, or just returned
  embedFailed,  \* history: ids of documents whose ingestion failed at embedding
  deleted,      \* history: ids for which delete_document returned True
  onlySuccess,  \* history: every call so far was an ingest_document that
                \* returned its Document, a delete_document that returned
                \* True, or a search
  chunker,      \* one call of chunk_text, pass by pass, and the chunk_size
                \* and chunk_overlap of the engine's config
  engines,      \* the RAGEngine objects of the processes that share the
                \* persist directory: each one's self.documents and call
  backend,      \* the embedding backend of an engine: what the config
                \* selects, what the host offers, what __init__ set up
  session,      \* SessionManager: the Redis key of one session, the clock,
                \* and the call in progress with its stack of frames
  device        \* VirtualDeviceAgent: its fields and the last call

vars == <<collection, index, fallback, documents, disk, nextId, call,
          embedFailed, deleted, onlySuccess, chunker, engines, backend,
          session, device>>
hist == <<embedFailed, deleted, onlySuccess>>

\* The variables the engine's operations on the stores leave alone.
side == <<chunker, engines, backend, session, device>>

NoDocs == [d \in {} |-> NoVal]

IdleCall ==
  [op |-> "none", pc |-> "idle", arg |-> NoVal, doc |-> NoVal,
   chunks |-> <<>>, embeddings |-> <<>>, chunk_ids |-> <<>>,
   status |-> "none", error |-> "none", result |-> NoVal, pre |-> NoVal]

\* What a call that is starting records of the stores, for the claims that
\* compare a call's outcome with the state it started from.
Snapshot ==
  [documents |-> documents, index |-> index, fallback |-> fallback, disk |-> disk]

\* No call of chunk_text has been made on the engine with this config.
NewChunker(chunk_size, chunk_overlap) ==
  [chunk_size |-> chunk_size, chunk_overlap |-> chunk_overlap,
   pc |-> "idle", text |-> <<>>, start |-> 0, chunks |-> <<>>,
   windows |-> <<>>, result |-> <<>>]

\* The processes that construct a RAGEngine on the persist directory: the
\* API server (get_rag_engine) and the bulk ingestion script.
Engines == {"server", "script"}

\* No process has constructed its engine.
NoEngines ==
  [e \in Engines |->
     [built |-> FALSE, documents |-> NoDocs, call |-> IdleCall, saved |-> FALSE]]

\* The host and the configuration of the defaults: sentence-transformers is
\* installed, its model loads and gives vectors of embedding_dimension
\* components (here 2 for the 384 of all-MiniLM-L6-v2).
DefaultBackend ==
  [provider |-> "sentence-transformers", embedding_dimension |-> 2,
   st_available |-> TRUE, openai_available |-> TRUE, api_key |-> NoVal,
   model_loads |-> TRUE, width |-> 2,
   state |-> "new", error |-> "none",
   embedding_model |-> NoVal, openai_client |-> NoVal,
   calls |-> 0, last |-> "none", stored |-> {}]

\* SessionManager(redis_client) on a Redis without the session's key, at
\* time 0, with no call in progress.
NoSession ==
  [stored |-> FALSE, state |-> "none", expires_at |-> 0, key_expiry |-> 0,
   now |-> 0, op |-> "none", pc |-> "idle", stack |-> <<>>, outcome |-> "none",
   seen |-> "none"]

\* VirtualDeviceAgent(): DeviceAgent.__init__ and the two buffers.
NewDevice ==
  [led_state |-> "Idle", current_persona |-> "companion",
   simulated_audio_buffer |-> "", assistant_response |-> "",
   op |-> "none", arg |-> NoVal, result |-> NoVal]

Init ==
  /\ chunker = NewChunker(Config.chunk_size, Config.chunk_overlap)
  /\ engines = NoEngines
  /\ backend = DefaultBackend
  /\ session = NoSession
  /\ device = NewDevice
  /\ collection \in {"ok", "none"}
  /\ index = {}
  /\ fallback = <<>>
  /\ documents = NoDocs
  /\ disk = [valid |-> TRUE, docs |-> NoDocs]
  /\ nextId = 0
  /\ call = [p \in Procs |-> IdleCall]
  /\ embedFailed = {}
  /\ deleted = {}
  /\ onlySuccess = TRUE

\* The caller is not inside a call.
Startable(p) == call[p].pc = "idle"

\* What _load_document_registry would read back.
DiskDocs == IF disk.valid THEN disk.docs ELSE NoDocs

\* _save_document_registry with the registry `docs`: the write succeeds, or
\* open() fails (file untouched), or the dump fails after open() truncated
\* the file (unreadable JSON).  The exception is logged and swallowed.
SaveOutcomes(docs) ==
  { [valid |-> TRUE, docs |-> docs], disk, [valid |-> FALSE, docs |-> NoDocs] }

\* The stored chunks, wherever ingest_document put them.
FallbackRecords == Range(fallback)
ChunkStore == IF collection = "none" THEN FallbackRecords ELSE index
StoredIds(store) == {r.id : r \in store}

(***************************************************************************)
(* The embedding backend and the vector index (library behaviour).         *)
(***************************************************************************)
\* SentenceTransformer.encode on one text: a fixed, deterministic model.
\* The stand-in maps a text to the one-component vector of its length.
Encode(text) == <<Len(text)>>

\* get_embeddings(texts): one vector per text, in order.
get_embeddings(texts) == [i \in 1..Len(texts) |-> Encode(texts[i])]

\* The collection's distance between two vectors, in tenths, within the
\* range [0, 2] of a cosine distance.
Distance(u, v) == Min(20, 2 * Abs(u[1] - v[1]))

\* Chroma's `where`: every key of the filter equals the stored metadata's.
Matches(rec, where) ==
  \A k \in DOMAIN where : k \in DOMAIN rec.metadata /\ rec.metadata[k] = where[k]

\* collection.query(query_embeddings=[q], n_results=n, where=...): the n
\* nearest records among those the filter keeps, nearest first; records at
\* equal distance come in any order.
RECURSIVE NearestFirst(_, _, _)
NearestFirst(cands, q, n) ==
  IF n <= 0 \/ cands = {} THEN {<<>>}
  ELSE LET best == {c \in cands : \A o \in cands :
                      Distance(c.embedding, q) <= Distance(o.embedding, q)}
       IN  UNION { { <<c>> \o rest : rest \in NearestFirst(cands \ {c}, q, n - 1) }
                   : c \in best }

\* selects from a sequence the records the filter keeps
RECURSIVE FilterHits(_, _)
FilterHits(hits, where) ==
  IF hits = <<>> THEN <<>>
  ELSE (IF Matches(Head(hits), where) THEN <<Head(hits)>> ELSE <<>>)
       \o FilterHits(Tail(hits), where)

\* Mutant: the n nearest records are taken first and filtered afterwards.
ChromaQuery_PostFilter(store, q, n, where) ==
  { FilterHits(h, where) : h \in NearestFirst(store, q, n) }

ChromaQuery(store, q, n, where) ==
  NearestFirst({r \in store : Matches(r, where)}, q, n)

(***************************************************************************)
(* ingest_document                                                         *)
(***************************************************************************)
Returned(c, status, error, result) ==
  [c EXCEPT !.pc = "done", !.status = status, !.error = error, !.result = result]

Begin(op, arg) ==
  [IdleCall EXCEPT !.op = op, !.pc = "running", !.arg = arg,
                   !.status = "running", !.pre = Snapshot]

\* extract_text raises: the suffix is not supported, or the file cannot be
\* read.  The exception leaves ingest_document before anything is created.
IngestExtractFail(p, inp) ==
  /\ Startable(p)
  /\ call' = [call EXCEPT ![p] = Returned(Begin("ingest", inp), "error", "extract", NoVal)]
  /\ onlySuccess' = FALSE
  /\ UNCHANGED <<side, collection, index, fallback, documents, disk, nextId, embedFailed, deleted>>

\* The Document built once the text is extracted.
NewDocument(doc_id, inp) ==
  [id |-> doc_id, filename |-> inp.file.name,
   content |-> Slice(inp.file.text, 0, 1000),
   category |-> inp.category,
   context |-> OrStr(inp.context, "Global"),
   metadata |-> inp.metadata]

\* self.documents[doc_id] = document
WithDocument(docs, doc) ==
  [d \in (DOMAIN docs) \cup {doc.id} |-> IF d = doc.id THEN doc ELSE docs[d]]

\* Mutant: the Document is put in the registry as soon as it is built.
IngestExtractOK_RegistersEarly(p, inp) ==
  /\ Startable(p)
  /\ inp.file.ext \in SupportedExt
  /\ nextId < MaxDocs
  /\ nextId' = nextId + 1
  /\ documents' = WithDocument(documents, NewDocument(nextId + 1, inp))
  /\ call' = [call EXCEPT ![p] =
       [Begin("ingest", inp) EXCEPT !.pc = "embed",
          !.doc = NewDocument(nextId + 1, inp),
          !.chunks = chunk_text(inp.file.text)]]
  /\ UNCHANGED <<side, collection, index, fallback, disk, hist>>

\* extract_text returns; the document id is drawn, the Document built and
\* the text chunked.
IngestExtractOK(p, inp) ==
  /\ Startable(p)
  /\ inp.file.ext \in SupportedExt
  /\ nextId < MaxDocs
  /\ nextId' = nextId + 1
  /\ call' = [call EXCEPT ![p] =
       [Begin("ingest", inp) EXCEPT !.pc = "embed",
          !.doc = NewDocument(nextId + 1, inp),
          !.chunks = chunk_text(inp.file.text)]]
  /\ UNCHANGED <<side, collection, index, fallback, documents, disk, hist>>

\* get_embeddings raises.
IngestEmbedFail(p) ==
  /\ call[p].op = "ingest" /\ call[p].pc = "embed"
  /\ call' = [call EXCEPT ![p] = Returned(call[p], "error", "embed", NoVal)]
  /\ embedFailed' = embedFailed \cup {call[p].doc.id}
  /\ onlySuccess' = FALSE
  /\ UNCHANGED <<side, collection, index, fallback, documents, disk, nextId, deleted>>

IngestEmbedOK(p) ==
  /\ call[p].op = "ingest" /\ call[p].pc = "embed"
  /\ call' = [call EXCEPT ![p] =
       [call[p] EXCEPT !.pc = "store", !.embeddings = get_embeddings(call[p].chunks)]]
  /\ UNCHANGED <<side, collection, index, fallback, documents, disk, nextId, hist>>

\* The pairs zip(chunks, embeddings) yields.
ZipLen(c) == Min(Len(c.chunks), Len(c.embeddings))

\* Mutant: the chunk id is the chunk's index alone, "chunk_<i>".
ChunkRecord_IdByIndex(c, i) ==
  [id |-> <<0, i>>,
   embedding |-> c.embeddings[i + 1],
   document |-> c.chunks[i + 1],
   metadata |-> DictMerge(
     [document_id |-> c.doc.id, filename |-> c.arg.file.name, chunk_index |-> i,
      category |-> c.arg.category, context |-> OrStr(c.arg.context, "Global")],
     c.arg.metadata)]

\* The chunk record of pair i (0-based) of call c.
ChunkRecord(c, i) ==
  [id |-> <<c.doc.id, i>>,
   embedding |-> c.embeddings[i + 1],
   document |-> c.chunks[i + 1],
   metadata |-> DictMerge(
     [document_id |-> c.doc.id, filename |-> c.arg.file.name, chunk_index |-> i,
      category |-> c.arg.category, context |-> OrStr(c.arg.context, "Global")],
     c.arg.metadata)]

\* One pass of the storing loop: the chunk goes to the collection, or to the
\* fallback list when there is no collection.
IngestStoreChunk(p) ==
  /\ call[p].op = "ingest" /\ call[p].pc = "store"
  /\ Len(call[p].chunk_ids) < ZipLen(call[p])
  /\ collection \in {"ok", "none"}
  /\ LET i == Len(call[p].chunk_ids)
         rec == ChunkRecord(call[p], i)
     IN  /\ call' = [call EXCEPT ![p].chunk_ids = Append(@, rec.id)]
         /\ IF collection = "ok"
            THEN index' = index \cup {rec} /\ UNCHANGED fallback
            ELSE fallback' = Append(fallback, rec) /\ UNCHANGED index
  /\ UNCHANGED <<side, collection, documents, disk, nextId, hist>>

\* Mutant: the exception of collection.add is swallowed inside the loop, which
\* goes on to the next pair.
IngestStoreFail_Swallowed(p) ==
  /\ call[p].op = "ingest" /\ call[p].pc = "store"
  /\ Len(call[p].chunk_ids) < ZipLen(call[p])
  /\ collection \in {"ok", "stale"}
  /\ call' = [call EXCEPT ![p].chunk_ids =
                Append(@, <<call[p].doc.id, Len(call[p].chunk_ids)>>)]
  /\ onlySuccess' = FALSE
  /\ UNCHANGED <<side, collection, index, fallback, documents, disk, nextId, embedFailed, deleted>>

\* collection.add raises: the exception leaves ingest_document.
IngestStoreFail(p) ==
  /\ call[p].op = "ingest" /\ call[p].pc = "store"
  /\ Len(call[p].chunk_ids) < ZipLen(call[p])
  /\ collection \in {"ok", "stale"}
  /\ call' = [call EXCEPT ![p] = Returned(call[p], "error", "store", NoVal)]
  /\ onlySuccess' = FALSE
  /\ UNCHANGED <<side, collection, index, fallback, documents, disk, nextId, embedFailed, deleted>>

\* The Document as it is registered: chunk_count and chunk_ids set.
Registered(c) ==
  [c.doc EXCEPT !.metadata = DictMerge(@,
     [chunk_count |-> Len(c.chunks), chunk_ids |-> c.chunk_ids])]

\* After the loop: the record is added to the registry, the registry saved,
\* the Document returned.
IngestRegister(p) ==
  /\ call[p].op = "ingest" /\ call[p].pc = "store"
  /\ Len(call[p].chunk_ids) = ZipLen(call[p])
  /\ LET doc == Registered(call[p])
         docs == WithDocument(documents, doc)
     IN  /\ documents' = docs
         /\ disk' \in SaveOutcomes(docs)
         /\ call' = [call EXCEPT ![p] = Returned(call[p], "ok", "none", doc)]
  /\ UNCHANGED <<side, collection, index, fallback, nextId, hist>>

(***************************************************************************)
(* delete_document                                                         *)
(***************************************************************************)
\* Document ids a caller may pass.
DocIds == 1..MaxDocs

\* metadata.get("chunk_ids", [])
ChunkIdsOf(doc) ==
  IF "chunk_ids" \in DOMAIN doc.metadata THEN doc.metadata["chunk_ids"] ELSE <<>>

\* metadata.get("chunk_count", 0)
ChunkCountOf(doc) ==
  IF "chunk_count" \in DOMAIN doc.metadata THEN doc.metadata["chunk_count"] ELSE 0

\* Mutant: an id that is not in the registry is reported as deleted.
DeleteAbsent_ReturnsTrue(p, id) ==
  /\ Startable(p)
  /\ id \notin DOMAIN documents
  /\ call' = [call EXCEPT ![p] = Returned(Begin("delete", id), "ok", "none", TRUE)]
  /\ onlySuccess' = FALSE
  /\ UNCHANGED <<side, collection, index, fallback, documents, disk, nextId, embedFailed, deleted>>

\* The id is not in the registry: False.
DeleteAbsent(p, id) ==
  /\ Startable(p)
  /\ id \notin DOMAIN documents
  /\ call' = [call EXCEPT ![p] = Returned(Begin("delete", id), "ok", "none", FALSE)]
  /\ onlySuccess' = FALSE
  /\ UNCHANGED <<side, collection, index, fallback, documents, disk, nextId, embedFailed, deleted>>

\* `if self.collection and chunk_ids`: the collection is asked to delete.
AsksIndex(id) == collection # "none" /\ ChunkIdsOf(documents[id]) # <<>>

\* Mutant: the record is taken from the registry with the chunks still in
\* the collection.
DeleteIndexOK_KeepsChunks(p, id) ==
  /\ Startable(p)
  /\ id \in DOMAIN documents
  /\ AsksIndex(id) => collection = "ok"
  /\ call' = [call EXCEPT ![p] = [Begin("delete", id) EXCEPT !.pc = "del_registry"]]
  /\ UNCHANGED <<side, collection, index, fallback, documents, disk, nextId, hist>>

\* The chunks are deleted from the collection (or the step is skipped).
DeleteIndexOK(p, id) ==
  /\ Startable(p)
  /\ id \in DOMAIN documents
  /\ AsksIndex(id) => collection = "ok"
  /\ index' = IF AsksIndex(id)
              THEN {r \in index : r.id \notin Range(ChunkIdsOf(documents[id]))}
              ELSE index
  /\ call' = [call EXCEPT ![p] = [Begin("delete", id) EXCEPT !.pc = "del_registry"]]
  /\ UNCHANGED <<side, collection, fallback, documents, disk, nextId, hist>>

\* del self.documents[doc_id]
WithoutDocument(docs, id) == [d \in (DOMAIN docs) \ {id} |-> docs[d]]

\* Mutant: the exception of collection.delete is swallowed; the record is
\* removed, the registry saved and True returned.
DeleteIndexFail_RemovesRecord(p, id) ==
  /\ Startable(p)
  /\ id \in DOMAIN documents
  /\ AsksIndex(id)
  /\ LET docs == WithoutDocument(documents, id)
     IN  /\ documents' = docs
         /\ disk' \in SaveOutcomes(docs)
  /\ call' = [call EXCEPT ![p] = Returned(Begin("delete", id), "ok", "index", TRUE)]
  /\ onlySuccess' = FALSE
  /\ UNCHANGED <<side, collection, index, fallback, nextId, embedFailed, deleted>>

\* collection.delete raises: logged, False.
DeleteIndexFail(p, id) ==
  /\ Startable(p)
  /\ id \in DOMAIN documents
  /\ AsksIndex(id)
  /\ call' = [call EXCEPT ![p] = Returned(Begin("delete", id), "ok", "index", FALSE)]
  /\ onlySuccess' = FALSE
  /\ UNCHANGED <<side, collection, index, fallback, documents, disk, nextId, embedFailed, deleted>>

\* Mutant: True is returned with the record still in the registry.
DeleteRegistry_KeepsRecord(p) ==
  /\ call[p].op = "delete" /\ call[p].pc = "del_registry"
  /\ call[p].arg \in DOMAIN documents
  /\ call' = [call EXCEPT ![p] = Returned(call[p], "ok", "none", TRUE)]
  /\ deleted' = deleted \cup {call[p].arg}
  /\ UNCHANGED <<side, collection, index, fallback, documents, disk, nextId,
                 embedFailed, onlySuccess>>

\* The record is removed, the registry saved: True.
DeleteRegistry(p) ==
  /\ call[p].op = "delete" /\ call[p].pc = "del_registry"
  /\ call[p].arg \in DOMAIN documents
  /\ LET docs == WithoutDocument(documents, call[p].arg)
     IN  /\ documents' = docs
         /\ disk' \in SaveOutcomes(docs)
  /\ call' = [call EXCEPT ![p] = Returned(call[p], "ok", "none", TRUE)]
  /\ deleted' = deleted \cup {call[p].arg}
  /\ UNCHANGED <<side, collection, index, fallback, nextId, embedFailed, onlySuccess>>

(***************************************************************************)
(* reset                                                                   *)
(***************************************************************************)
\* What the try block of reset leaves: nothing to do without a collection;
\* both calls succeed; delete_collection raises (always so on a stale
\* handle, whose collection is gone); or get_or_create_collection raises
\* after the collection was deleted.  The exception is swallowed.
ResetIndexOutcomes ==
  IF collection = "ok"
  THEN { [collection |-> "ok", index |-> {}],
         [collection |-> "ok", index |-> index],
         [collection |-> "stale", index |-> {}] }
  ELSE { [collection |-> collection, index |-> index] }

ResetIndex(p) ==
  /\ Startable(p)
  /\ \E out \in ResetIndexOutcomes :
       /\ collection' = out.collection
       /\ index' = out.index
  /\ call' = [call EXCEPT ![p] = [Begin("reset", NoVal) EXCEPT !.pc = "reset_registry"]]
  /\ onlySuccess' = FALSE
  /\ UNCHANGED <<side, fallback, documents, disk, nextId, embedFailed, deleted>>

ResetRegistry(p) ==
  /\ call[p].op = "reset" /\ call[p].pc = "reset_registry"
  /\ documents' = NoDocs
  /\ disk' \in SaveOutcomes(NoDocs)
  /\ call' = [call EXCEPT ![p] = Returned(call[p], "ok", "none", NoVal)]
  /\ UNCHANGED <<side, collection, index, fallback, nextId, hist>>

(***************************************************************************)
(* search                                                                  *)
(***************************************************************************)
\* top_k = top_k or self.config.top_k
EffectiveTopK(a) == OrNum(a.top_k, Config.top_k)

\* score_threshold = score_threshold or self.config.score_threshold
EffectiveThreshold(a) == OrNum(a.score_threshold, Config.score_threshold)

\* Mutant: no filter is built.
WhereFilter_Empty(a) == EmptyMap

\* where_filter
WhereFilter(a) ==
  [k \in ({"category"} \cap (IF TruthyStr(a.category) THEN {"category"} ELSE {}))
         \cup ({"context"} \cap (IF TruthyStr(a.context) THEN {"context"} ELSE {}))
     |-> IF k = "category" THEN a.category ELSE a.context]

\* Convert distance to similarity score (1 - distance).
Score(rec, q) == 10 - Distance(rec.embedding, q)

\* The SearchResult of a hit.
ResultOf(rec, q) ==
  [chunk_id |-> rec.id, document_id |-> rec.metadata["document_id"],
   content |-> rec.document, score |-> Score(rec, q), metadata |-> rec.metadata]

\* Mutant: the comparison is turned round.
Keeps_Inverted(score, threshold) == score <= threshold

\* `if score >= score_threshold`
Keeps(score, threshold) == score >= threshold

\* The loop over the hits: those at or above the threshold, in order.
RECURSIVE SearchResults(_, _, _)
SearchResults(hits, q, threshold) ==
  IF hits = <<>> THEN <<>>
  ELSE (IF Keeps(Score(Head(hits), q), threshold)
        THEN <<ResultOf(Head(hits), q)>> ELSE <<>>)
       \o SearchResults(Tail(hits), q, threshold)

\* get_embeddings([query]) raises: the exception leaves search.
SearchEmbedFail(p, a) ==
  /\ Startable(p)
  /\ call' = [call EXCEPT ![p] = Returned(Begin("search", a), "error", "embed", NoVal)]
  /\ UNCHANGED <<side, collection, index, fallback, documents, disk, nextId, hist>>

\* The query is embedded, collection.query returns, and the hits are scored
\* and thresholded.
SearchQueryOK(p, a) ==
  /\ Startable(p)
  /\ collection = "ok"
  /\ LET q == get_embeddings(<<a.query>>)[1]
     IN  \E hits \in ChromaQuery(index, q, EffectiveTopK(a), WhereFilter(a)) :
           call' = [call EXCEPT ![p] =
             Returned([Begin("search", a) EXCEPT !.chunks = hits], "ok", "none",
                      SearchResults(hits, q, EffectiveThreshold(a)))]
  /\ UNCHANGED <<side, collection, index, fallback, documents, disk, nextId, hist>>

\* What search hands back when collection.query raised.
OnQueryFault(c) == Returned(c, "ok", "index", <<>>)

\* collection.query raises (always so on a stale handle): `except Exception`
\* logs it and returns [].
SearchQueryFault(p, a) ==
  /\ Startable(p)
  /\ collection \in {"ok", "stale"}
  /\ call' = [call EXCEPT ![p] = OnQueryFault(Begin("search", a))]
  /\ UNCHANGED <<side, collection, index, fallback, documents, disk, nextId, hist>>

\* Mutant: without a collection the search raises.
SearchFallback_Raises(p, a) ==
  /\ Startable(p)
  /\ collection = "none"
  /\ call' = [call EXCEPT ![p] = Returned(Begin("search", a), "error", "index", NoVal)]
  /\ UNCHANGED <<side, collection, index, fallback, documents, disk, nextId, hist>>

\* No collection: the fallback branch returns [].
SearchFallback(p, a) ==
  /\ Startable(p)
  /\ collection = "none"
  /\ call' = [call EXCEPT ![p] = Returned(Begin("search", a), "ok", "none", <<>>)]
  /\ UNCHANGED <<side, collection, index, fallback, documents, disk, nextId, hist>>

(***************************************************************************)
(* get_metrics                                                             *)
(***************************************************************************)
RECURSIVE SumChunkCounts(_, _)
SumChunkCounts(docs, ids) ==
  IF ids = {} THEN 0
  ELSE LET d == CHOOSE x \in ids : TRUE
       IN  ChunkCountOf(docs[d]) + SumChunkCounts(docs, ids \ {d})

total_documents == Cardinality(DOMAIN documents)
total_chunks == SumChunkCounts(documents, DOMAIN documents)
\* self.collection.count(), 0 without a collection or when count() raises
total_embeddings == IF collection = "ok" THEN Cardinality(index) ELSE 0

(***************************************************************************)
(* The specification: one caller, whose calls the host serialises.         *)
(***************************************************************************)
\* The caller takes the outcome of the call; it may call again.
Return(p) ==
  /\ call[p].pc = "done"
  /\ call' = [call EXCEPT ![p] = IdleCall]
  /\ UNCHANGED <<side, collection, index, fallback, documents, disk, nextId, hist>>

Step(p) ==
  \/ \E inp \in IngestInputs(DOMAIN documents) : IngestExtractFail(p, inp)
  \/ \E inp \in IngestInputs(DOMAIN documents) : IngestExtractOK(p, inp)
  \/ IngestEmbedFail(p)
  \/ IngestEmbedOK(p)
  \/ IngestStoreChunk(p)
  \/ IngestStoreFail(p)
  \/ IngestRegister(p)
  \/ \E id \in DocIds : DeleteAbsent(p, id)
  \/ \E id \in DocIds : DeleteIndexOK(p, id)
  \/ \E id \in DocIds : DeleteIndexFail(p, id)
  \/ DeleteRegistry(p)
  \/ ResetIndex(p)
  \/ ResetRegistry(p)
  \/ \E a \in SearchInputs : SearchEmbedFail(p, a)
  \/ \E a \in SearchInputs : SearchQueryOK(p, a)
  \/ \E a \in SearchInputs : SearchQueryFault(p, a)
  \/ \E a \in SearchInputs : SearchFallback(p, a)
  \/ Return(p)

Next == Step("p1")

Spec == Init /\ [][Next]_vars

(***************************************************************************)
(* chunk_text pass by pass, for every small text and a range of configs.   *)
(***************************************************************************)
\* The longest text chunked, and how many passes of the while loop a call
\* is followed for.
MaxTextLen == 7
MaxIters == 10

\* An ordinary character, a sentence end, and a character that is both
\* white space and a line end.
Alphabet == {"a", ".", "\n"}

RECURSIVE TextsOfLen(_)
TextsOfLen(n) ==
  IF n = 0 THEN {<<>>}
  ELSE {<<c>> \o t : c \in Alphabet, t \in TextsOfLen(n - 1)}

Texts == UNION {TextsOfLen(n) : n \in 0..MaxTextLen}

\* RAGConfig(chunk_size=..., chunk_overlap=...): the model takes any pair of
\* integers.  Among them the pair of Config, pairs whose windows are cut at
\* a sentence end, and pairs with chunk_overlap >= chunk_size.
ChunkConfigs ==
  { [chunk_size |-> 4, chunk_overlap |-> 1],
    [chunk_size |-> 4, chunk_overlap |-> 2],
    [chunk_size |-> 5, chunk_overlap |-> 0],
    [chunk_size |-> 5, chunk_overlap |-> 1],
    [chunk_size |-> 5, chunk_overlap |-> 2],
    [chunk_size |-> 5, chunk_overlap |-> 4],
    [chunk_size |-> 3, chunk_overlap |-> 0],
    [chunk_size |-> 3, chunk_overlap |-> 1],
    [chunk_size |-> 2, chunk_overlap |-> 2],
    [chunk_size |-> 2, chunk_overlap |-> 3] }

\* The variables of the stores and of the callers.
stores == <<collection, index, fallback, documents, disk, nextId, call, hist,
            engines, backend, session, device>>

\* An engine constructed on an empty persist directory.
FreshStores ==
  /\ collection = "ok"
  /\ index = {}
  /\ fallback = <<>>
  /\ documents = NoDocs
  /\ disk = [valid |-> TRUE, docs |-> NoDocs]
  /\ nextId = 0
  /\ call = [p \in Procs |-> IdleCall]
  /\ embedFailed = {}
  /\ deleted = {}
  /\ onlySuccess = TRUE
  /\ engines = NoEngines
  /\ session = NoSession
  /\ device = NewDevice

ChunkInit ==
  /\ FreshStores
  /\ backend = DefaultBackend
  /\ \E cfg \in ChunkConfigs : chunker = NewChunker(cfg.chunk_size, cfg.chunk_overlap)

\* chunk_text(text) is entered: chunks = [], start = 0.
ChunkBegin ==
  /\ chunker.pc = "idle"
  /\ \E text \in Texts : chunker' = [chunker EXCEPT !.pc = "loop", !.text = text]
  /\ UNCHANGED stores

\* Where in the text the stripped chunk of a window lies: text[lo:hi].
StrippedSpan(text, start, raw) ==
  LET lo == SliceBound(start, Len(text)) + (Len(raw) - Len(LStrip(raw)))
  IN  [lo |-> lo, hi |-> lo + Len(Strip(raw))]

\* One pass of `while start < len(text)`.
ChunkIterate ==
  /\ chunker.pc = "loop"
  /\ chunker.start < Len(chunker.text)
  /\ Len(chunker.chunks) < MaxIters
  /\ LET st == ChunkStep(chunker.text, chunker.start,
                         chunker.chunk_size, chunker.chunk_overlap)
         sp == StrippedSpan(chunker.text, chunker.start, st.raw)
     IN  chunker' = [chunker EXCEPT
           !.chunks = Append(@, st.chunk),
           !.windows = Append(@, [start |-> chunker.start, end |-> st.end,
                                  lo |-> sp.lo, hi |-> sp.hi]),
           !.start = st.next]
  /\ UNCHANGED stores

\* The loop condition fails: the non-empty chunks are returned.
ChunkReturn ==
  /\ chunker.pc = "loop"
  /\ ~(chunker.start < Len(chunker.text))
  /\ chunker' = [chunker EXCEPT !.pc = "returned", !.result = DropEmpty(chunker.chunks)]
  /\ UNCHANGED stores

ChunkNext ==
  \/ ChunkBegin
  \/ ChunkIterate
  \/ ChunkReturn

ChunkSpec == ChunkInit /\ [][ChunkNext]_vars

(***************************************************************************)
(* Two processes, each with its own RAGEngine, on one persist directory:   *)
(* they share documents.json and the Chroma collection, and each holds its *)
(* own self.documents.                                                     *)
(***************************************************************************)
\* The variables the engines of the two processes leave alone.
aside == <<collection, fallback, documents, call, hist, chunker, backend,
           session, device>>

SharedInit ==
  /\ FreshStores
  /\ backend = DefaultBackend
  /\ chunker = NewChunker(Config.chunk_size, Config.chunk_overlap)

\* The files the two processes ingest.
SharedInputs == {inp \in IngestInputs({}) : inp.file.ext \in SupportedExt}

\* RAGEngine(persist_directory=...): the registry is read from documents.json.
EngineConstruct(e) ==
  /\ ~engines[e].built
  /\ engines' = [engines EXCEPT ![e].built = TRUE, ![e].documents = DiskDocs]
  /\ UNCHANGED <<index, disk, nextId, aside>>

\* The call of ingest_document at the end of its storing loop.
StoredCall(doc_id, inp) ==
  LET chunks == chunk_text(inp.file.text)
  IN  [Begin("ingest", inp) EXCEPT
         !.pc = "store",
         !.doc = NewDocument(doc_id, inp),
         !.chunks = chunks,
         !.embeddings = get_embeddings(chunks),
         !.chunk_ids = [i \in 1..Len(chunks) |-> <<doc_id, i - 1>>]]

\* ingest_document up to the end of the storing loop: the text is extracted,
\* the id drawn, the chunks embedded and added to the shared collection.
EngineIngestStore(e, inp) ==
  /\ engines[e].built
  /\ engines[e].call.pc = "idle"
  /\ nextId < MaxDocs
  /\ nextId' = nextId + 1
  /\ LET c == StoredCall(nextId + 1, inp)
     IN  /\ index' = index \cup {ChunkRecord(c, i) : i \in 0..(Len(c.chunks) - 1)}
         /\ engines' = [engines EXCEPT ![e].call = c, ![e].saved = FALSE]
  /\ UNCHANGED <<disk, aside>>

\* The registry the record is added to and that is written: self.documents.
RegistryForSave(e) == engines[e].documents

\* self.documents[doc_id] = document; self._save_document_registry(); the
\* Document is returned.
EngineIngestRegister(e) ==
  /\ engines[e].call.op = "ingest"
  /\ engines[e].call.pc = "store"
  /\ LET doc == Registered(engines[e].call)
         docs == WithDocument(RegistryForSave(e), doc)
     IN  \E out \in SaveOutcomes(docs) :
           /\ disk' = out
           /\ engines' = [engines EXCEPT
                ![e].documents = docs,
                ![e].call = Returned(@, "ok", "none", doc),
                ![e].saved = (out = [valid |-> TRUE, docs |-> docs])]
  /\ UNCHANGED <<index, nextId, aside>>

\* The process takes the Document; it may ingest again.
EngineReturn(e) ==
  /\ engines[e].call.pc = "done"
  /\ engines' = [engines EXCEPT ![e].call = IdleCall]
  /\ UNCHANGED <<index, disk, nextId, aside>>

EngineStep(e) ==
  \/ EngineConstruct(e)
  \/ \E inp \in SharedInputs : EngineIngestStore(e, inp)
  \/ EngineIngestRegister(e)
  \/ EngineReturn(e)

SharedNext == \E e \in Engines : EngineStep(e)

SharedDirSpec == SharedInit /\ [][SharedNext]_vars

(***************************************************************************)
(* One engine called from two threads: a writer that ingests and deletes   *)
(* documents and a reader that searches, their steps interleaved.          *)
(***************************************************************************)
\* The searches of the reader: no filter, a filter, a low threshold.
ReaderInputs ==
  { a \in SearchInputs :
      /\ a.query = QueryAB
      /\ a.top_k \in {NoInt, 2}
      /\ a.context = NoVal
      /\ a.score_threshold \in {NoInt, 0, 9} }

WriterStep(p) ==
  \/ \E inp \in IngestInputs(DOMAIN documents) : IngestExtractOK(p, inp)
  \/ IngestEmbedOK(p)
  \/ IngestStoreChunk(p)
  \/ IngestRegister(p)
  \/ \E id \in DocIds : DeleteAbsent(p, id)
  \/ \E id \in DocIds : DeleteIndexOK(p, id)
  \/ \E id \in DocIds : DeleteIndexFail(p, id)
  \/ DeleteRegistry(p)
  \/ Return(p)

ReaderStep(p) ==
  \/ \E a \in ReaderInputs : SearchQueryOK(p, a)
  \/ \E a \in ReaderInputs : SearchQueryFault(p, a)
  \/ \E a \in ReaderInputs : SearchFallback(p, a)
  \/ Return(p)

ThreadsNext == WriterStep("p1") \/ ReaderStep("p2")

ThreadsSpec == Init /\ [][ThreadsNext]_vars

(***************************************************************************)
(* Construction of the engine: the embedding backend that __init__ sets up *)
(* and that get_embeddings uses, for every provider name, host and         *)
(* configured embedding_dimension.                                         *)
(***************************************************************************)
\* How many calls of get_embeddings an engine is followed for.
MaxCalls == 2

\* config.embedding_provider: the two names the code knows, and another.
Providers == {"sentence-transformers", "openai", "cohere"}

\* openai_api_key: absent, empty, given.
ApiKeys == {NoVal, "", "sk-key"}

\* Vector widths: of the model's output, and config.embedding_dimension.
Widths == {2, 3}

\* Every configuration and host: the provider, the configured dimension,
\* whether each library imported, the key, whether SentenceTransformer(name)
\* loads, and the width of the vectors the selected model gives.
Backends ==
  { [DefaultBackend EXCEPT
       !.provider = pr, !.embedding_dimension = dim,
       !.st_available = st, !.openai_available = oa, !.api_key = key,
       !.model_loads = ml, !.width = w] :
    pr \in Providers, dim \in Widths, st \in BOOLEAN, oa \in BOOLEAN,
    key \in ApiKeys, ml \in BOOLEAN, w \in Widths }

\* The variables the construction and get_embeddings leave alone.
apart == <<collection, index, fallback, documents, disk, nextId, call, hist,
           chunker, engines, session, device>>

ConstructInit ==
  /\ FreshStores
  /\ chunker = NewChunker(Config.chunk_size, Config.chunk_overlap)
  /\ backend \in Backends

Raised(b, error) == [b EXCEPT !.state = "raised", !.error = error]

\* Mutant: a missing library or key is logged and the construction goes on.
InitBackend_LogsOnly(b) ==
  IF b.provider = "sentence-transformers"
  THEN IF b.st_available /\ ~b.model_loads
       THEN Raised(b, "OSError")
       ELSE [b EXCEPT !.state = "constructed",
                      !.embedding_model = IF b.st_available THEN "model" ELSE NoVal]
  ELSE IF b.provider = "openai"
  THEN [b EXCEPT !.state = "constructed",
                 !.openai_client = IF b.openai_available /\ TruthyStr(b.api_key)
                                   THEN "client" ELSE NoVal]
  ELSE Raised(b, "ValueError")

\* __init__ from `self.embedding_model = None`: the branch on
\* config.embedding_provider.
InitBackend(b) ==
  IF b.provider = "sentence-transformers"
  THEN IF b.st_available
       THEN IF b.model_loads
            THEN [b EXCEPT !.state = "constructed", !.embedding_model = "model"]
            ELSE Raised(b, "OSError")
       ELSE Raised(b, "ImportError")
  ELSE IF b.provider = "openai"
  THEN IF b.openai_available /\ TruthyStr(b.api_key)
       THEN [b EXCEPT !.state = "constructed", !.openai_client = "client"]
       ELSE Raised(b, "ValueError")
  ELSE Raised(b, "ValueError")

\* RAGEngine(...) returns or raises.
BackendConstruct ==
  /\ backend.state = "new"
  /\ backend' = InitBackend(backend)
  /\ UNCHANGED apart

\* How a call of get_embeddings can end: RuntimeError when the model or the
\* client is None, ValueError for a provider that is neither; otherwise
\* the vectors, or the exception of encode / of the API call.
EmbedOutcomes(b) ==
  IF b.provider = "sentence-transformers"
  THEN IF b.embedding_model = NoVal THEN {"not_initialized"} ELSE {"ok", "backend_error"}
  ELSE IF b.provider = "openai"
  THEN IF b.openai_client = NoVal THEN {"not_initialized"} ELSE {"ok", "backend_error"}
  ELSE {"unsupported"}

\* get_embeddings(texts) on the constructed engine.
BackendGetEmbeddings ==
  /\ backend.state = "constructed"
  /\ backend.calls < MaxCalls
  /\ \E out \in EmbedOutcomes(backend) :
       backend' = [backend EXCEPT !.calls = @ + 1, !.last = out]
  /\ UNCHANGED apart

\* ingest_document stores the chunks with the vectors get_embeddings gave.
BackendStoreChunk ==
  /\ backend.state = "constructed"
  /\ backend.last = "ok"
  /\ backend.width \notin backend.stored
  /\ backend' = [backend EXCEPT !.stored = @ \cup {backend.width}]
  /\ UNCHANGED apart

ConstructNext ==
  \/ BackendConstruct
  \/ BackendGetEmbeddings
  \/ BackendStoreChunk

ConstructSpec == ConstructInit /\ [][ConstructNext]_vars

(***************************************************************************)
(* SessionManager (core/session/manager.py): one session id, its key in    *)
(* Redis, the clock in hours, and the calls get_session and end_session    *)
(* frame by frame.                                                         *)
(***************************************************************************)
DEFAULT_TTL_HOURS == 24

\* The hour the clock stops at, and the interpreter's limit on the depth
\* of the stack (1000 in CPython, here in frames of the two methods).
MaxTime == 72
RecursionLimit == 6

\* The variables the session manager leaves alone.
beside == <<collection, index, fallback, documents, disk, nextId, call, hist,
            chunker, engines, backend, device>>

SessionInit ==
  /\ FreshStores
  /\ chunker = NewChunker(Config.chunk_size, Config.chunk_overlap)
  /\ backend = DefaultBackend

\* redis.get finds the key: it was set and its time to live is not over.
KeyPresent(s) == s.stored /\ s.now < s.key_expiry

\* session.expires_at < datetime.utcnow()
Expired(s) == s.expires_at < s.now

Top(stack) == stack[Len(stack)]
Pop(stack) == SubSeq(stack, 1, Len(stack) - 1)

\* Twelve hours pass, between calls or inside one.
SessionTick ==
  /\ session.now + 12 <= MaxTime
  /\ session' = [session EXCEPT !.now = @ + 12]
  /\ UNCHANGED beside

\* _save_session: setex with the time to live counted from now.
Saved(s) == [s EXCEPT !.stored = TRUE, !.key_expiry = s.now + DEFAULT_TTL_HOURS]

\* create_session: the session is stored active, to expire in 24 hours.
CreateSession ==
  /\ session.pc = "idle"
  /\ ~session.stored
  /\ session' = [Saved(session) EXCEPT
       !.state = "active",
       !.expires_at = session.now + DEFAULT_TTL_HOURS,
       !.op = "create", !.outcome = "none", !.seen = "none"]
  /\ UNCHANGED beside

\* add_message on a session that get_session returns: the session is saved
\* again, which renews the time to live of its key.
AddMessage ==
  /\ session.pc = "idle"
  /\ KeyPresent(session)
  /\ ~Expired(session)
  /\ session' = [Saved(session) EXCEPT !.op = "add", !.outcome = "none", !.seen = "none"]
  /\ UNCHANGED beside

\* A caller awaits get_session(session_id).
GetSessionCall ==
  /\ session.pc = "idle"
  /\ session' = [session EXCEPT !.op = "get", !.pc = "call", !.stack = <<"get">>,
                                 !.outcome = "none", !.seen = "none"]
  /\ UNCHANGED beside

\* A caller awaits end_session(session_id), which awaits get_session.
EndSessionCall ==
  /\ session.pc = "idle"
  /\ session' = [session EXCEPT !.op = "end", !.pc = "call", !.stack = <<"end", "get">>,
                                 !.outcome = "none", !.seen = "none"]
  /\ UNCHANGED beside

\* What the frame of the caller's own get_session finds under the key.
SeenBy(s) ==
  IF ~KeyPresent(s) THEN "absent" ELSE IF Expired(s) THEN "expired" ELSE "live"

\* The body of get_session in the frame on top: no data raises
\* SessionNotFoundError; an expired session awaits end_session, which
\* awaits get_session (RecursionError when the stack is full); a live one
\* is returned.
GetSessionBody ==
  /\ session.pc = "call"
  /\ Top(session.stack) = "get"
  /\ LET s == IF Len(session.stack) = 1
               THEN [session EXCEPT !.seen = SeenBy(session)] ELSE session
     IN  session' =
           IF ~KeyPresent(s) THEN [s EXCEPT !.pc = "SessionNotFoundError"]
           ELSE IF Expired(s)
           THEN IF Len(s.stack) + 2 > RecursionLimit
                THEN [s EXCEPT !.pc = "RecursionError"]
                ELSE [s EXCEPT !.stack = @ \o <<"end", "get">>]
           ELSE [s EXCEPT !.pc = "session"]
  /\ UNCHANGED beside

Raising(s) == s.pc \in {"SessionNotFoundError", "SessionExpiredError", "RecursionError"}

\* An exception leaves the frame on top: end_session catches
\* SessionNotFoundError and returns None; every other frame lets it out.
Propagate ==
  /\ Raising(session)
  /\ session.stack # <<>>
  /\ session' =
       IF Len(session.stack) >= 2
          /\ session.stack[Len(session.stack) - 1] = "end"
          /\ session.pc = "SessionNotFoundError"
       THEN [session EXCEPT !.stack = Pop(Pop(@)), !.pc = "None"]
       ELSE [session EXCEPT !.stack = Pop(@)]
  /\ UNCHANGED beside

\* get_session returns the session to the end_session that awaited it: the
\* session is marked ended, expires_at set to now, and saved.
EndSessionBody ==
  /\ session.pc = "session"
  /\ Len(session.stack) >= 2
  /\ session.stack[Len(session.stack) - 1] = "end"
  /\ session' = [Saved(session) EXCEPT
       !.state = "ended", !.expires_at = session.now,
       !.stack = Pop(Pop(@)), !.pc = "None"]
  /\ UNCHANGED beside

\* end_session returns to the get_session that awaited it, which raises
\* SessionExpiredError.
RaiseExpired ==
  /\ session.pc = "None"
  /\ session.stack # <<>>
  /\ Top(session.stack) = "get"
  /\ session' = [session EXCEPT !.pc = "SessionExpiredError"]
  /\ UNCHANGED beside

\* The caller's await completes, with a value or an exception.
SessionComplete ==
  /\ \/ session.stack = <<>> /\ session.pc \notin {"idle", "call", "done"}
     \/ session.stack = <<"get">> /\ session.pc = "session"
  /\ session' = [session EXCEPT !.pc = "done", !.outcome = session.pc, !.stack = <<>>]
  /\ UNCHANGED beside

\* The caller goes on to its next call.
SessionIdle ==
  /\ session.pc = "done"
  /\ session' = [session EXCEPT !.pc = "idle"]
  /\ UNCHANGED beside

SessionNext ==
  \/ SessionTick
  \/ CreateSession
  \/ AddMessage
  \/ GetSessionCall
  \/ EndSessionCall
  \/ GetSessionBody
  \/ Propagate
  \/ EndSessionBody
  \/ RaiseExpired
  \/ SessionComplete
  \/ SessionIdle

SessionSpec == SessionInit /\ [][SessionNext]_vars

(***************************************************************************)
(* VirtualDeviceAgent (core/device/agent.py): listen, speak and the        *)
(* persona buttons, one call per step.                                     *)
(***************************************************************************)
\* What a caller passes to listen: nothing (None), the empty string, a text.
ListenInputs == {NoVal, "", "hello", "stop"}

\* What a caller passes to speak.
SpeakInputs == {"", "hi there", "goodbye"}

\* The buttons of simulate_button_press.
Buttons == {"companion", "activity", "emergency", "volume"}

\* The variables the device leaves alone.
besides == <<collection, index, fallback, documents, disk, nextId, call, hist,
             chunker, engines, backend, session>>

DeviceInit ==
  /\ FreshStores
  /\ chunker = NewChunker(Config.chunk_size, Config.chunk_overlap)
  /\ backend = DefaultBackend

\* `if text_input: self.simulated_audio_buffer = text_input`: the buffer
\* after listen.
Heard(buffer, text_input) == IF TruthyStr(text_input) THEN text_input ELSE buffer

\* listen(text_input): the LED goes to Listening, a truthy input replaces
\* the buffer, the buffer is returned.
Listen(text_input) ==
  /\ device' = [device EXCEPT
       !.led_state = "Listening",
       !.simulated_audio_buffer = Heard(@, text_input),
       !.op = "listen", !.arg = text_input,
       !.result = Heard(device.simulated_audio_buffer, text_input)]
  /\ UNCHANGED besides

\* speak(text): the LED goes to Speaking, the text is kept as
\* assistant_response, and after the playback the LED goes to Idle.
Speak(text) ==
  /\ device' = [device EXCEPT
       !.led_state = "Idle",
       !.assistant_response = text,
       !.op = "speak", !.arg = text, !.result = NoVal]
  /\ UNCHANGED besides

\* simulate_button_press(button_type): a persona button switches the
\* persona.
ButtonPress(button_type) ==
  /\ device' = [device EXCEPT
       !.current_persona =
          IF button_type \in {"companion", "activity", "emergency"} THEN button_type ELSE @,
       !.op = "button", !.arg = button_type, !.result = NoVal]
  /\ UNCHANGED besides

DeviceNext ==
  \/ \E text_input \in ListenInputs : Listen(text_input)
  \/ \E text \in SpeakInputs : Speak(text)
  \/ \E button_type \in Buttons : ButtonPress(button_type)

DeviceSpec == DeviceInit /\ [][DeviceNext]_vars

(***************************************************************************)
(* ingest_document with an embedding backend that may hand back a list of  *)
(* vectors shorter or longer than the list of texts it was given.          *)
(***************************************************************************)
\* The lists a miscounting backend returns for `texts`: the last vector
\* missing, or one vector too many.
Miscounts(texts) ==
  LET full == get_embeddings(texts)
  IN  {full \o <<Encode(<<>>)>>}
        \cup (IF full = <<>> THEN {} ELSE {SubSeq(full, 1, Len(full) - 1)})

\* get_embeddings returns a list whose length is not that of its input.
IngestEmbedMiscount(p) ==
  /\ call[p].op = "ingest" /\ call[p].pc = "embed"
  /\ \E embeddings \in Miscounts(call[p].chunks) :
       call' = [call EXCEPT ![p] =
         [call[p] EXCEPT !.pc = "store", !.embeddings = embeddings]]
  /\ UNCHANGED <<side, collection, index, fallback, documents, disk, nextId, hist>>

IngestStep(p) ==
  \/ \E inp \in IngestInputs(DOMAIN documents) : IngestExtractOK(p, inp)
  \/ IngestEmbedOK(p)
  \/ IngestEmbedMiscount(p)
  \/ IngestStoreChunk(p)
  \/ IngestRegister(p)
  \/ Return(p)

IngestNext == IngestStep("p1")

IngestSpec == Init /\ [][IngestNext]_vars

(***************************************************************************)
(* The registry and the chunk store.                                       *)
(***************************************************************************)
\* No call is in progress.
Quiescent == \A p \in Procs : call[p].pc \in {"idle", "done"}

\* The call of p to `op` has returned or raised.
Done(p, op) == call[p].op = op /\ call[p].pc = "done"

SearchReturned(p) == Done(p, "search") /\ call[p].status = "ok"

\* Stored chunks whose document has no record in the registry.
Orphans == {r \in ChunkStore : r.id[1] \notin DOMAIN documents}

C2_EarlyFailureChangesNothing ==
  /\ \A p \in Procs :
       (Done(p, "ingest") /\ call[p].error \in {"extract", "embed"}) =>
         /\ call[p].status = "error"
         /\ documents = call[p].pre.documents
         /\ disk = call[p].pre.disk
         /\ index = call[p].pre.index
         /\ fallback = call[p].pre.fallback
         /\ total_documents = Cardinality(DOMAIN call[p].pre.documents)
  /\ \A r \in ChunkStore :
       r.id[1] \notin embedFailed /\ r.metadata["document_id"] \notin embedFailed
  /\ \A p \in Procs :
       SearchReturned(p) =>
         \A i \in 1..Len(call[p].result) :
           call[p].result[i].document_id \notin embedFailed

\* An ingestion has failed at embedding with a document and chunks already
\* in the store, and its id was drawn.
C2_Witness ==
  \E p \in Procs :
    /\ Done(p, "ingest") /\ call[p].error = "embed"
    /\ call[p].doc.id \in embedFailed
    /\ documents # NoDocs
    /\ ChunkStore # {}

\* All chunks of the ingestion in progress are in the chunk store.
AllChunksStored(c) ==
  \A i \in 0..(Len(c.chunks) - 1) : <<c.doc.id, i>> \in StoredIds(ChunkStore)

\* C3: a document's record appears in the registry, or in its file, only in
\* the step that ends its ingestion successfully, with every chunk of the
\* document already written; an ingestion that failed at a chunk write has
\* no record.
C3_RecordAfterAllChunkWrites ==
  /\ [](\A p \in Procs :
          (Done(p, "ingest") /\ call[p].error = "store") =>
            /\ call[p].status = "error"
            /\ call[p].doc.id \notin DOMAIN documents
            /\ call[p].doc.id \notin DOMAIN DiskDocs)
  /\ [][\A d \in DocIds :
          (/\ d \in (DOMAIN documents') \cup (DOMAIN DiskDocs')
           /\ d \notin (DOMAIN documents) \cup (DOMAIN DiskDocs))
          => \E p \in Procs :
               /\ call[p].op = "ingest" /\ call[p].pc = "store"
               /\ call[p].doc.id = d
               /\ AllChunksStored(call[p])
               /\ call'[p].pc = "done" /\ call'[p].status = "ok"]_vars

\* An ingestion failed at its second chunk write: the first chunk is left
\* in the store and the document has no record.
C3_Witness ==
  \E p \in Procs :
    /\ Done(p, "ingest") /\ call[p].error = "store"
    /\ <<call[p].doc.id, 0>> \in StoredIds(ChunkStore)
    /\ Len(call[p].chunks) = 2

\* C4 (as claimed): after delete_document(id) returned True, the chunk store
\* holds none of the chunk ids the record listed, total_documents is one
\* less than when the call started, and no later search returns a result
\* whose document_id is id.
C4_DeleteRemovesEverything ==
  /\ \A p \in Procs :
       (Done(p, "delete") /\ call[p].result = TRUE) =>
         /\ Range(ChunkIdsOf(call[p].pre.documents[call[p].arg]))
              \cap StoredIds(ChunkStore) = {}
         /\ total_documents = Cardinality(DOMAIN call[p].pre.documents) - 1
  /\ \A p \in Procs :
       SearchReturned(p) =>
         \A i \in 1..Len(call[p].result) :
           call[p].result[i].document_id \notin deleted

\* C5: a delete_document whose index deletion raises returns False and
\* leaves the record, the registry file and the stored chunks as they were.
C5_FailedIndexDeleteKeepsRecord ==
  \A p \in Procs :
    (Done(p, "delete") /\ call[p].error = "index") =>
      /\ call[p].result = FALSE
      /\ call[p].arg \in DOMAIN documents
      /\ documents = call[p].pre.documents
      /\ disk = call[p].pre.disk
      /\ index = call[p].pre.index

\* The index deletion of a registered document with stored chunks raised.
C5_Witness ==
  \E p \in Procs :
    /\ Done(p, "delete") /\ call[p].error = "index"
    /\ call[p].arg \in DOMAIN documents
    /\ ChunkIdsOf(documents[call[p].arg]) # <<>>
    /\ Range(ChunkIdsOf(documents[call[p].arg])) \subseteq StoredIds(index)

\* C6 (as claimed): after calls that were all successful ingestions or
\* successful deletions (searches aside), total_chunks equals
\* total_embeddings.
C6_ChunksEqualEmbeddings ==
  (Quiescent /\ onlySuccess) => total_chunks = total_embeddings

(***************************************************************************)
(* What search returns.                                                    *)
(***************************************************************************)
\* The query vector of a search call.
QueryVector(a) == get_embeddings(<<a.query>>)[1]

\* The records of the collection that the filter of the call keeps.
MatchingChunks(a) == {r \in index : Matches(r, WhereFilter(a))}

\* C7: the scores of a returned list never increase along the list, and
\* each is at least the threshold in effect for the call.
C7_RankedAndAboveThreshold ==
  \A p \in Procs :
    SearchReturned(p) =>
      LET r == call[p].result
      IN  /\ \A i \in 1..(Len(r) - 1) : r[i].score >= r[i + 1].score
          /\ \A i \in 1..Len(r) : r[i].score >= EffectiveThreshold(call[p].arg)

\* Two results of different scores came back and the threshold dropped a
\* hit.
C7_Witness ==
  \E p \in Procs :
    /\ SearchReturned(p)
    /\ Len(call[p].result) >= 2
    /\ call[p].result[1].score > call[p].result[2].score
    /\ Len(call[p].chunks) > Len(call[p].result)

\* C8 (as claimed): a search called with a category (a context) other than
\* None returns only chunks whose stored category (context) is that value.
C8_FilterForEveryValue ==
  \A p \in Procs :
    SearchReturned(p) =>
      \A i \in 1..Len(call[p].result) :
        /\ call[p].arg.category # NoVal =>
             call[p].result[i].metadata["category"] = call[p].arg.category
        /\ call[p].arg.context # NoVal =>
             call[p].result[i].metadata["context"] = call[p].arg.context

\* C8 (amended): a search called with a non-empty category (context)
\* returns only chunks whose stored category (context) is that value.
C8_FilterForNonEmptyValue ==
  \A p \in Procs :
    SearchReturned(p) =>
      \A i \in 1..Len(call[p].result) :
        /\ TruthyStr(call[p].arg.category) =>
             call[p].result[i].metadata["category"] = call[p].arg.category
        /\ TruthyStr(call[p].arg.context) =>
             call[p].result[i].metadata["context"] = call[p].arg.context

\* A search by category returned something while the collection held a
\* chunk of another category that scores at or above the threshold.
C8_Witness ==
  \E p \in Procs :
    /\ SearchReturned(p)
    /\ TruthyStr(call[p].arg.category)
    /\ call[p].result # <<>>
    /\ \E r \in index :
         /\ r.metadata["category"] # call[p].arg.category
         /\ Score(r, QueryVector(call[p].arg)) >= EffectiveThreshold(call[p].arg)

\* C9 (as claimed): when at least top_k chunks of the collection match the
\* filter, search returns top_k results.
C9_TopKWhenEnoughMatch ==
  \A p \in Procs :
    SearchReturned(p) =>
      (Cardinality(MatchingChunks(call[p].arg)) >= EffectiveTopK(call[p].arg)
         => Len(call[p].result) = EffectiveTopK(call[p].arg))

\* C9 (amended): a query that completes yields the top_k nearest of the
\* chunks that match the filter, all of them when fewer than top_k match,
\* and search returns those of them that score at or above the threshold:
\* top_k results when at least top_k matching chunks do.
C9_FilterBeforeTruncation ==
  \A p \in Procs :
    (SearchReturned(p) /\ call[p].error = "none" /\ collection = "ok") =>
      LET a   == call[p].arg
          k   == EffectiveTopK(a)
          M   == MatchingChunks(a)
          top == {r \in M : Score(r, QueryVector(a)) >= EffectiveThreshold(a)}
      IN  /\ Len(call[p].chunks) = Min(k, Cardinality(M))
          /\ Range(call[p].chunks) \subseteq M
          /\ Len(call[p].result) = Min(k, Cardinality(top))

\* A filtered search for one result returned it although a chunk that the
\* filter rejects lies nearer to the query than every matching one.
C9_Witness ==
  \E p \in Procs :
    /\ SearchReturned(p) /\ call[p].error = "none" /\ collection = "ok"
    /\ WhereFilter(call[p].arg) # EmptyMap
    /\ EffectiveTopK(call[p].arg) = 1
    /\ Len(call[p].result) = 1
    /\ \E o \in index \ MatchingChunks(call[p].arg) :
         \A r \in MatchingChunks(call[p].arg) :
           Distance(o.embedding, QueryVector(call[p].arg))
             < Distance(r.embedding, QueryVector(call[p].arg))

\* C10 (as claimed): on an engine that has a collection, a search whose
\* embedding or whose index query raised ends in an error, and a search
\* returns the empty list only without a collection or when the query
\* completed.
C10_SearchFaultsSurface ==
  \A p \in Procs :
    Done(p, "search") =>
      /\ (collection # "none" /\ call[p].error \in {"embed", "index"})
           => call[p].status = "error"
      /\ (call[p].status = "ok" /\ call[p].result = <<>>)
           => (collection = "none" \/ call[p].error = "none")

(***************************************************************************)
(* What chunk_text returns.                                                *)
(***************************************************************************)
ChunkReturned == chunker.pc = "returned"

\* The windows whose stripped chunk is not empty, in the order of the passes.
KeptWindows == SelectSeq(chunker.windows, LAMBDA w : w.hi > w.lo)

\* A window that was cut at a sentence boundary before the end of the text.
CutShort(w) == w.end < w.start + chunker.chunk_size

\* C11 (as claimed): chunk_text returns no chunk for the empty text and one
\* chunk for a text shorter than chunk_size that is not all white space.
C11_ShortTextOneChunk ==
  ChunkReturned =>
    /\ chunker.text = <<>> => chunker.result = <<>>
    /\ (/\ 0 < Len(chunker.text)
        /\ Len(chunker.text) < chunker.chunk_size
        /\ Strip(chunker.text) # <<>>)
         => Len(chunker.result) = 1

\* C12 (as claimed): chunk_text never runs on an engine whose chunk_overlap
\* is chunk_size or more.
C12_OverlapBelowChunkSize ==
  chunker.pc # "idle" => chunker.chunk_overlap < chunker.chunk_size

\* C13: every returned chunk is a non-empty piece of the text of at most
\* chunk_size characters, and from one chunk to the next the pieces never
\* start, nor end, further left.
C13_ChunksNonEmptyBoundedOrdered ==
  ChunkReturned =>
    LET r == chunker.result
        k == KeptWindows
    IN  /\ Len(r) = Len(k)
        /\ \A i \in 1..Len(r) :
             /\ r[i] # <<>>
             /\ Len(r[i]) <= chunker.chunk_size
             /\ r[i] = SubSeq(chunker.text, k[i].lo + 1, k[i].hi)
        /\ \A i \in 1..(Len(r) - 1) :
             k[i].lo <= k[i + 1].lo /\ k[i].hi <= k[i + 1].hi

\* Several chunks came back, one from a window cut at a sentence boundary,
\* and an empty chunk was dropped.
C13_Witness ==
  /\ ChunkReturned
  /\ Len(chunker.result) >= 2
  /\ Len(chunker.windows) > Len(chunker.result)
  /\ \E i \in 1..Len(chunker.windows) :
       CutShort(chunker.windows[i]) /\ chunker.windows[i].hi > chunker.windows[i].lo

\* How many positions of the text the chunks of two windows have in common.
SharedChars(w1, w2) == Max(0, Min(w1.hi, w2.hi) - Max(w1.lo, w2.lo))

NonSpace(s) == SelectSeq(s, LAMBDA c : ~IsSpace(c))

\* The chunks joined in order, each without the characters that the chunks
\* before it already cover (`covered` is how far they reach in the text).
RECURSIVE Rebuild(_, _, _)
Rebuild(chs, spans, covered) ==
  IF chs = <<>> THEN <<>>
  ELSE LET c == Head(chs)
           drop == Min(Len(c), Max(0, covered - Head(spans).lo))
       IN  SubSeq(c, drop + 1, Len(c))
             \o Rebuild(Tail(chs), Tail(spans), Max(covered, Head(spans).hi))

\* C15: of a non-empty text, every character that is not white space lies
\* in a returned chunk, and the returned chunks joined in order without
\* their overlaps have the text's characters that are not white space.
C15_ChunksCoverText ==
  (ChunkReturned /\ chunker.text # <<>>) =>
    LET k == KeptWindows
    IN  /\ Len(k) = Len(chunker.result)
        /\ \A q \in 1..Len(chunker.text) :
             ~IsSpace(chunker.text[q]) =>
               \E i \in 1..Len(k) : k[i].lo < q /\ q <= k[i].hi
        /\ NonSpace(Rebuild(chunker.result, k, 0)) = NonSpace(chunker.text)

\* A text with white space inside came back as several overlapping chunks,
\* one of them from a cut window, and an all-white window was dropped.
C15_Witness ==
  /\ ChunkReturned
  /\ chunker.chunk_overlap > 0
  /\ Len(chunker.result) >= 2
  /\ Len(chunker.windows) > Len(chunker.result)
  /\ NonSpace(chunker.text) # chunker.text
  /\ \E i \in 1..Len(KeptWindows) : CutShort(KeptWindows[i])
  /\ \E i \in 1..(Len(KeptWindows) - 1) :
       SharedChars(KeptWindows[i], KeptWindows[i + 1]) > 0

\* The ingest_document call of engine e has returned its Document and its
\* write of documents.json went through.
IngestSaved(e) ==
  /\ engines[e].call.op = "ingest"
  /\ engines[e].call.pc = "done"
  /\ engines[e].saved

\* C16 (as claimed): once the ingest_document calls of the two engines on
\* the persist directory have both returned, with their writes of the
\* registry file done, documents.json holds the records of both documents.
C16_BothRecordsPersisted ==
  (\A e \in Engines : IngestSaved(e)) =>
    \A e \in Engines : engines[e].call.doc.id \in DOMAIN DiskDocs

\* C17 (as claimed): however the steps of delete_document and the searches
\* interleave, a search made once delete_document has taken a document's
\* record from the registry returns no result of that document.
C17_NoResultOfDeletedDocument ==
  [][\A p \in Procs :
       (call[p].pc = "idle" /\ call'[p].op = "search" /\ call'[p].status = "ok") =>
         \A i \in 1..Len(call'[p].result) :
           call'[p].result[i].document_id \notin deleted]_vars

\* C17 (chunks told apart by their chunk ids): a search made once
\* delete_document has taken a document's record from the registry returns
\* no chunk that the ingestion of that document stored, however the steps
\* of the delete and the searches interleave; and no such chunk is in the
\* collection.
C17_NoChunkOfDeletedDocument ==
  /\ [](\A r \in index : r.id[1] \notin deleted)
  /\ [][\A p \in Procs :
          (call[p].pc = "idle" /\ call'[p].op = "search" /\ call'[p].status = "ok") =>
            \A i \in 1..Len(call'[p].result) :
              call'[p].result[i].chunk_id[1] \notin deleted]_vars

\* While delete_document, its record gone from the registry, has yet to
\* return, a search was made and came back with the chunks of the other
\* document only.
C17_Witness ==
  /\ call["p1"].op = "delete" /\ call["p1"].pc = "done" /\ call["p1"].result = TRUE
  /\ call["p1"].pre.index # index
  /\ call["p2"].op = "search" /\ call["p2"].pc = "done"
  /\ call["p2"].pre.documents = documents
  /\ call["p2"].pre.index = index
  /\ call["p2"].result # <<>>

\* The backend the configuration selects cannot be set up on this host.
BackendUnusable(b) ==
  \/ b.provider \notin {"sentence-transformers", "openai"}
  \/ b.provider = "sentence-transformers" /\ ~b.st_available
  \/ b.provider = "openai" /\ (~b.openai_available \/ b.api_key \in {NoVal, ""})

\* C18: with an unknown provider name, a missing library or a missing API
\* key the construction of the engine raises; and on a constructed engine
\* the model or the client of the selected provider is set, so that no
\* call of get_embeddings ends for want of an initialized backend.
C18_UnusableBackendFailsConstruction ==
  /\ (backend.state # "new" /\ BackendUnusable(backend)) => backend.state = "raised"
  /\ backend.state = "constructed" =>
       /\ backend.provider = "sentence-transformers" => backend.embedding_model # NoVal
       /\ backend.provider = "openai" => backend.openai_client # NoVal
  /\ backend.last \notin {"not_initialized", "unsupported"}

\* An engine constructed for OpenAI on a host without sentence-transformers
\* got its vectors at the first call of get_embeddings.
C18_Witness ==
  /\ backend.state = "constructed"
  /\ backend.provider = "openai"
  /\ ~backend.st_available
  /\ backend.calls = 1
  /\ backend.last = "ok"

\* C19 (as claimed): an engine whose config.embedding_dimension is not the
\* width of the vectors of its model is not constructed, and every chunk
\* is stored with a vector of config.embedding_dimension components.
C19_EmbeddingsOfConfiguredDimension ==
  /\ backend.state = "constructed" => backend.width = backend.embedding_dimension
  /\ \A w \in backend.stored : w = backend.embedding_dimension

\* C20 (as claimed): when reset() has returned the collection holds no chunk
\* record and the registry no document, and get_metrics reports 0
\* documents, 0 chunks and 0 embeddings.
C20_ResetEmptiesIndexAndRegistry ==
  \A p \in Procs :
    Done(p, "reset") =>
      /\ index = {}
      /\ documents = NoDocs
      /\ total_documents = 0
      /\ total_chunks = 0
      /\ total_embeddings = 0

\* C21: delete_document of an id that is not in the registry returns False
\* and leaves the registry, its file and the stored chunks as they were; a
\* delete_document that returns True found the id in the registry, so a
\* second delete of a deleted id returns False.
C21_DeleteOfAbsentIdReturnsFalse ==
  \A p \in Procs :
    Done(p, "delete") =>
      /\ call[p].arg \notin DOMAIN call[p].pre.documents =>
           /\ call[p].result = FALSE
           /\ documents = call[p].pre.documents
           /\ disk = call[p].pre.disk
           /\ index = call[p].pre.index
           /\ fallback = call[p].pre.fallback
      /\ call[p].result = TRUE => call[p].arg \in DOMAIN call[p].pre.documents

\* A second delete_document of a deleted id has returned False, with another
\* document and its chunks still there.
C21_Witness ==
  \E p \in Procs :
    /\ Done(p, "delete")
    /\ call[p].arg \in deleted
    /\ call[p].arg \notin DOMAIN call[p].pre.documents
    /\ call[p].result = FALSE
    /\ documents # NoDocs
    /\ ChunkStore # {}

IdsInOrder(doc_id, ids) == \A i \in 1..Len(ids) : ids[i] = <<doc_id, i - 1>>

\* C23: the chunk ids of a document, registered or being stored, are
\* <document id>_chunk_<i> for i = 0, 1, ... in the order of the chunks, so
\* they differ from one another; the stored record of an id holds the chunk
\* of that index; and two registered documents, also two ingestions of the
\* same file, have no chunk id in common.
C23_ChunkIdsScopedByDocument ==
  /\ \A d \in DOMAIN documents :
       LET ids == ChunkIdsOf(documents[d])
       IN  /\ IdsInOrder(d, ids)
           /\ Cardinality(Range(ids)) = Len(ids)
           /\ \A e \in (DOMAIN documents) \ {d} :
                Range(ids) \cap Range(ChunkIdsOf(documents[e])) = {}
  /\ \A p \in Procs :
       (call[p].op = "ingest" /\ call[p].pc \in {"store", "done"}) =>
         /\ IdsInOrder(call[p].doc.id, call[p].chunk_ids)
         /\ \A i \in 1..Len(call[p].chunk_ids) :
              \A r \in ChunkStore :
                r.id = call[p].chunk_ids[i] => r.document = call[p].chunks[i]

\* Two ingestions of the same file are registered, each with two chunks or
\* more.
C23_Witness ==
  \E d, e \in DOMAIN documents :
    /\ d # e
    /\ documents[d].filename = documents[e].filename
    /\ Len(ChunkIdsOf(documents[d])) >= 2
    /\ Len(ChunkIdsOf(documents[e])) >= 2
    /\ StoredIds(ChunkStore) = Range(ChunkIdsOf(documents[d])) \cup Range(ChunkIdsOf(documents[e]))

\* C24 (as claimed): a get_session that found the session stored with its
\* expires_at in the past completes by raising SessionExpiredError, and one
\* that found no session stored by raising SessionNotFoundError.
C24_ExpiredSessionRaisesExpired ==
  (session.op = "get" /\ session.pc = "done") =>
    /\ session.seen = "expired" => session.outcome = "SessionExpiredError"
    /\ session.seen = "absent" => session.outcome = "SessionNotFoundError"

\* C25 (as claimed): listen(text_input), after any calls of listen and
\* speak, returns the text_input it was given and leaves the LED at
\* Listening; speak(text) leaves assistant_response = text.
C25_ListenReturnsItsInput ==
  /\ (device.op = "listen" /\ device.arg # NoVal) =>
       /\ device.result = device.arg
       /\ device.led_state = "Listening"
  /\ device.op = "speak" => device.assistant_response = device.arg

\* C26 (as claimed): when ingest_document has returned its Document, one
\* chunk record was written for each chunk of chunk_text, in order and with
\* its embedding, so that chunk_count, the length of chunk_ids and the
\* number of records written are the same, whatever number of vectors the
\* backend returned.
C26_OneRecordPerChunk ==
  \A p \in Procs :
    (Done(p, "ingest") /\ call[p].status = "ok") =>
      LET doc == call[p].result
          written == {r \in ChunkStore : r.id[1] = doc.id}
      IN  /\ ChunkCountOf(doc) = Len(call[p].chunks)
          /\ ChunkCountOf(doc) = Len(ChunkIdsOf(doc))
          /\ ChunkCountOf(doc) = Cardinality(written)
          /\ \A i \in 1..Len(call[p].chunks) :
               \E r \in written :
                 /\ r.id = <<doc.id, i - 1>>
                 /\ r.document = call[p].chunks[i]
                 /\ r.embedding = Encode(call[p].chunks[i])

\* C27 (as claimed): every stored chunk record listed in the chunk_ids of a
\* registered document carries that document's id, filename, category and
\* context in its metadata, whatever metadata map the caller passed.
C27_ChunkMetadataEqualsParent ==
  \A d \in DOMAIN documents :
    \A r \in ChunkStore :
      (\E i \in DOMAIN ChunkIdsOf(documents[d]) : ChunkIdsOf(documents[d])[i] = r.id) =>
        /\ r.metadata["document_id"] = documents[d].id
        /\ r.metadata["filename"] = documents[d].filename
        /\ r.metadata["category"] = documents[d].category
        /\ r.metadata["context"] = documents[d].context

\* C28 (as claimed): a search that is passed a score_threshold t returns
\* exactly the hits of the index query whose score is at least t, for every
\* t, 0 included, and a search that is passed a top_k receives at most top_k
\* hits from the index query.
C28_ExplicitThresholdAndTopKUsed ==
  \A p \in Procs :
    SearchReturned(p) =>
      LET a == call[p].arg
          q == get_embeddings(<<a.query>>)[1]
      IN  /\ a.score_threshold # NoInt =>
               call[p].result = SearchResults(call[p].chunks, q, a.score_threshold)
          /\ a.top_k # NoInt => Len(call[p].chunks) <= a.top_k

\* C29 (as claimed): under a configuration with chunk_size >= 1 and
\* 0 <= chunk_overlap < chunk_size every pass of the loop of chunk_text
\* leaves the window start strictly greater than it found it, a pass that
\* cut its chunk at a sentence boundary included, so that the loop makes at
\* most len(text) passes.
C29_EachPassAdvancesStart ==
  (chunker.chunk_size >= 1 /\ 0 <= chunker.chunk_overlap
     /\ chunker.chunk_overlap < chunker.chunk_size) =>
    /\ \A i \in DOMAIN chunker.windows :
         chunker.windows[i].end - chunker.chunk_overlap > chunker.windows[i].start
    /\ Len(chunker.windows) <= Len(chunker.text)

\* C30 (as claimed): when ingest_document has returned its Document,
\* delete_document has returned True or reset has returned, the registry
\* that _load_document_registry would read from the persist directory is
\* the in-memory registry.
C30_PersistedRegistryEqualsMemory ==
  \A p \in Procs :
    (/\ call[p].pc = "done" /\ call[p].status = "ok"
     /\ \/ call[p].op \in {"ingest", "reset"}
        \/ call[p].op = "delete" /\ call[p].result = TRUE) =>
      DiskDocs = documents

====
